---- MODULE Spec2Model ----
(***************************************************************************)
(* TasksAPI: the report status simulator (api/main.py, api/db/manager.py)  *)
(* and the password validator controller (api/tools/password_tools.py,     *)
(* api/tools/validators.py).                                               *)
(*                                                                         *)
(* Spec   : report creation, the background unit simulation_long_process   *)
(*          and the status lookup check_report over one report table.      *)
(* FairSpec: Spec with the thread pool's fairness for background units.    *)
(* SpecV  : PasswordValidatorController over bounded configurations.       *)
(* SpecA  : the construction of one validator (AbstractValidator and the   *)
(*          Levenshtein and strength validators) over bounded arguments.   *)
(* SpecU  : the users/ handlers with authentication and password hashing.  *)
(* SpecT  : the tasks/ handlers over one task table.                       *)
(***************************************************************************)
EXTENDS Integers, Sequences, FiniteSets, TLC

(* ---------------------------- bounds ----------------------------------- *)
\* number of reports (and so of background units) ever created
MaxReports == 2
\* number of entries of PASSWORD_VALIDATORS
MaxValidators == 2
\* length of the password and of the other field values of a validator call
MaxLen == 2
\* number of rows of the table "users"
MaxUsers == 2
\* number of rows of the table "tasks"
MaxTasks == 1
\* the last day of the calendar; days are 1..MaxDate
MaxDate == 2

\* user_id of the users that own reports: an owner and another user
Users == {1, 2}
\* report ids a caller can ask for: every id that can exist, and one that never does
Keys == 1..(MaxReports + 1)

VARIABLES
    reports,      \* table "reports", committed rows: report_id -> [user_id, status]
    units,        \* background units in scheduling order: [record_id, pc, error]
    slept,        \* the sleep(..) call a unit made in the last step
    response,     \* HTTP response of the handler that ran in the last step
    logline,      \* line written to the logger by the last step
    vcfg,         \* PASSWORD_VALIDATORS
    vpassword,    \* the password handed to validate
    vout,         \* outcome of the last controller call
    ain,          \* validator class and keyword arguments of a construction
    aout,         \* outcome of the last validator construction
    users,        \* table "users", committed rows in insertion order
    uresp,        \* HTTP response of the last users/ request
    tasks,        \* table "tasks", committed rows: task_id -> row
    tresp         \* HTTP response of the last tasks/ request

vars == <<reports, units, slept, response, logline, vcfg, vpassword, vout,
          ain, aout, users, uresp, tasks, tresp>>
rvars == <<reports, units, slept, response, logline>>
vvars == <<vcfg, vpassword, vout>>
avars == <<ain, aout>>
uvars == <<users, uresp>>
tvars == <<tasks, tresp>>
\* what the report handlers and background units never touch
notReports == <<vvars, avars, uvars, tvars>>
\* what the validator controller never touches
notController == <<rvars, avars, uvars, tvars>>
\* what a validator construction never touches
notValidator == <<rvars, vvars, uvars, tvars>>
\* what the users/ handlers never touch
notUsers == <<rvars, vvars, avars, tvars>>
\* what the tasks/ handlers never touch
notTasks == <<rvars, vvars, avars, uvars>>

(* ------------------------- ReportStatus -------------------------------- *)
COMPLETED == "Completed"
FAILED == "Failed"
RUNNING == "Running"
CREATED == "Created"
ReportStatus == {COMPLETED, FAILED, RUNNING, CREATED}

NoResponse == [op |-> "none", code |-> 0, key |-> 0, user |-> 0, status |-> "none"]
NoLog == [src |-> "none", error |-> "none"]
NoSleep == [unit |-> 0, phase |-> "none", dur |-> 0]

(* --------------------------- db/manager.py ----------------------------- *)
\* Manager._execute_query without the rollback: a failed commit leaves the change
ExecuteQuery_NoRollback(db, pending, commit_ok) ==
    [db |-> pending, error |-> IF commit_ok THEN "none" ELSE "SQLAlchemyError"]

\* Manager._execute_query: commit; on SQLAlchemyError roll back and re-raise
ExecuteQuery(db, pending, commit_ok) ==
    IF commit_ok
    THEN [db |-> pending, error |-> "none"]
    ELSE [db |-> db, error |-> "SQLAlchemyError"]

\* Manager._field_update / Manager.save: set the fields, then commit
Save(db, record_id, data, commit_ok) ==
    ExecuteQuery(db, [db EXCEPT ![record_id].status = data.status], commit_ok)

\* uuid.uuid4 that repeats itself: always the same identifier
uuid4_Repeating(used) == 1

\* uuid.uuid4 (the column default of ReportDB.report_id): an identifier not in use
uuid4(used) == CHOOSE i \in 1..(Cardinality(used) + 1) : i \notin used

\* Manager.create: add the instance, then commit
Create(db, data, commit_ok) ==
    LET id == uuid4(DOMAIN db)
        row == [user_id |-> data.user_id, status |-> CREATED]
        q == ExecuteQuery(db, (id :> row) @@ db, commit_ok)
    IN  [db |-> q.db, error |-> q.error, report_id |-> id]

\* Manager.filter that drops the user_id predicate
Filter_AnyUser(db, report_id, user_id) ==
    {r \in DOMAIN db : r = report_id}

\* Manager.filter on ReportDB with the predicates report_id == .. [, user_id == ..];
\* user_id = 0 stands for "no user predicate"
Filter(db, report_id, user_id) ==
    {r \in DOMAIN db : r = report_id /\ (user_id = 0 \/ db[r].user_id = user_id)}

\* Manager.get: filter(...)[0]; an empty list raises IndexError
Get(db, report_id, user_id) ==
    LET found == Filter(db, report_id, user_id)
    IN  IF found = {}
        THEN [error |-> "IndexError", report_id |-> 0]
        ELSE [error |-> "none", report_id |-> CHOOSE r \in found : TRUE]

(* ----------------------------- main.py --------------------------------- *)
\* random.randint with an exclusive upper end shifted by one
randint_OffByOne(a, b) == a..(b + 1)

\* random.randint(a, b): both ends inclusive
randint(a, b) == a..b

\* the two sleeps of simulation_long_process: sleep(random.randint(2, 5)) and
\* sleep(random.randint(5, 10)); <<lower end, upper end>>
SleepWindow(phase) == IF phase = "sleep1" THEN <<2, 5>> ELSE <<5, 10>>

\* sleep(random.randint(..)): the durations the sleep of this phase can take
SleepDurations(phase) == randint(SleepWindow(phase)[1], SleepWindow(phase)[2])

\* create_report: POST reports/
CreateReport(user, commit_ok) ==
    /\ Len(units) < MaxReports
    /\ LET c == Create(reports, [user_id |-> user], commit_ok)
       IN  IF c.error = "none"
           THEN /\ reports' = c.db
                /\ units' = Append(units, [record_id |-> c.report_id, pc |-> "queued",
                                           error |-> "none"])
                /\ response' = [op |-> "create", code |-> 201, key |-> c.report_id,
                                user |-> user, status |-> c.db[c.report_id].status]
                /\ logline' = NoLog
           ELSE /\ UNCHANGED <<reports, units>>
                /\ response' = [op |-> "create", code |-> 500, key |-> 0,
                                user |-> user, status |-> "none"]
                /\ logline' = [src |-> "create_report", error |-> c.error]
    /\ slept' = NoSleep
    /\ UNCHANGED notReports

\* check_report that writes the status it has read back to the table
CheckReport_Touching(report_id, user) ==
    /\ LET g == Get(reports, report_id, user)
       IN  IF g.error = "none"
           THEN /\ response' = [op |-> "check", code |-> 200, key |-> report_id,
                                user |-> user, status |-> reports[g.report_id].status]
                /\ reports' = [reports EXCEPT ![g.report_id].status = RUNNING]
                /\ logline' = NoLog
           ELSE /\ response' = [op |-> "check", code |-> 500, key |-> report_id,
                                user |-> user, status |-> "none"]
                /\ reports' = reports
                /\ logline' = [src |-> "check_report", error |-> g.error]
    /\ UNCHANGED units
    /\ slept' = NoSleep
    /\ UNCHANGED notReports

\* check_report: GET reports/{report_id}/
CheckReport(report_id, user) ==
    /\ LET g == Get(reports, report_id, user)
       IN  IF g.error = "none"
           THEN /\ response' = [op |-> "check", code |-> 200, key |-> report_id,
                                user |-> user, status |-> reports[g.report_id].status]
                /\ logline' = NoLog
           ELSE /\ response' = [op |-> "check", code |-> 500, key |-> report_id,
                                user |-> user, status |-> "none"]
                /\ logline' = [src |-> "check_report", error |-> g.error]
    /\ UNCHANGED <<reports, units>>
    /\ slept' = NoSleep
    /\ UNCHANGED notReports

\* the except/finally of simulation_long_process: log the error, close, end
UnitFails(u, error) ==
    /\ units' = [units EXCEPT ![u].pc = "done", ![u].error = error]
    /\ slept' = NoSleep
    /\ logline' = [src |-> "simulation_long_process", error |-> error]

\* simulation_long_process, lines 271-276: fetch the record, start the first sleep
SimBegin(u) ==
    /\ u \in DOMAIN units
    /\ units[u].pc = "queued"
    /\ LET g == Get(reports, units[u].record_id, 0)
       IN  IF g.error = "none"
           THEN /\ units' = [units EXCEPT ![u].pc = "sleep1"]
                /\ \E d \in SleepDurations("sleep1") :
                     slept' = [unit |-> u, phase |-> "sleep1", dur |-> d]
                /\ logline' = NoLog
           ELSE \* raised before the try: nothing is caught or logged here
                /\ units' = [units EXCEPT ![u].pc = "crashed", ![u].error = g.error]
                /\ slept' = NoSleep
                /\ logline' = NoLog
    /\ response' = NoResponse
    /\ UNCHANGED reports
    /\ UNCHANGED notReports

\* simulation_long_process that stores COMPLETED where RUNNING is due
SimRunning_Skipping(u, commit_ok) ==
    /\ u \in DOMAIN units
    /\ units[u].pc = "sleep1"
    /\ LET s == Save(reports, units[u].record_id, [status |-> COMPLETED], commit_ok)
       IN  /\ reports' = s.db
           /\ IF s.error = "none"
              THEN /\ units' = [units EXCEPT ![u].pc = "sleep2"]
                   /\ \E d \in SleepDurations("sleep2") :
                        slept' = [unit |-> u, phase |-> "sleep2", dur |-> d]
                   /\ logline' = NoLog
              ELSE UnitFails(u, s.error)
    /\ response' = NoResponse
    /\ UNCHANGED notReports

\* simulation_long_process, lines 277-279: store RUNNING, start the second sleep
SimRunning(u, commit_ok) ==
    /\ u \in DOMAIN units
    /\ units[u].pc = "sleep1"
    /\ LET s == Save(reports, units[u].record_id, [status |-> RUNNING], commit_ok)
       IN  /\ reports' = s.db
           /\ IF s.error = "none"
              THEN /\ units' = [units EXCEPT ![u].pc = "sleep2"]
                   /\ \E d \in SleepDurations("sleep2") :
                        slept' = [unit |-> u, phase |-> "sleep2", dur |-> d]
                   /\ logline' = NoLog
              ELSE UnitFails(u, s.error)
    /\ response' = NoResponse
    /\ UNCHANGED notReports

\* a final status that puts the report back to CREATED on the failing draws
FinalStatus_Reset(failed_status_value) ==
    IF failed_status_value \in {1, 3, 5} THEN CREATED ELSE COMPLETED

\* lines 280-283: COMPLETED, or FAILED when the drawn value is 1, 3 or 5
FinalStatus(failed_status_value) ==
    IF failed_status_value \in {1, 3, 5} THEN FAILED ELSE COMPLETED

\* simulation_long_process whose last step never ends
SimFinal_Stuck(u, commit_ok) ==
    /\ u \in DOMAIN units
    /\ units[u].pc = "sleep2"
    /\ \E d \in SleepDurations("sleep2") :
         slept' = [unit |-> u, phase |-> "sleep2", dur |-> d]
    /\ logline' = NoLog
    /\ response' = NoResponse
    /\ UNCHANGED <<reports, units>>
    /\ UNCHANGED notReports

\* simulation_long_process, lines 280-288: store the final status, close
SimFinal(u, commit_ok) ==
    /\ u \in DOMAIN units
    /\ units[u].pc = "sleep2"
    /\ \E failed_status_value \in randint(0, 10) :
         LET s == Save(reports, units[u].record_id,
                       [status |-> FinalStatus(failed_status_value)], commit_ok)
         IN  /\ reports' = s.db
             /\ IF s.error = "none"
                THEN /\ units' = [units EXCEPT ![u].pc = "done"]
                     /\ slept' = NoSleep
                     /\ logline' = NoLog
                ELSE UnitFails(u, s.error)
    /\ response' = NoResponse
    /\ UNCHANGED notReports

\* one step of background unit u
UnitStep(u) ==
    \/ SimBegin(u)
    \/ \E commit_ok \in BOOLEAN : SimRunning(u, commit_ok)
    \/ \E commit_ok \in BOOLEAN : SimFinal(u, commit_ok)


(* -------------------- tools/validators.py, password_tools.py ----------- *)
\* candidate passwords handed to validate
Passwords == {"password", "Passw0rd!"}

\* one entry of PASSWORD_VALIDATORS: whether the module file of its key exists,
\* whether that module has the named class, the passwords the class's _validate
\* raises on, and the raise_exception parameter of its configuration
ValidatorEntries ==
    [file_exists : BOOLEAN, has_class : BOOLEAN,
     rejects : SUBSET Passwords, raise_exception : BOOLEAN]

RECURSIVE SeqsUpTo(_, _)
SeqsUpTo(S, n) ==
    IF n = 0 THEN {<<>>}
    ELSE LET shorter == SeqsUpTo(S, n - 1)
         IN  shorter \cup {Append(q, e) : q \in {x \in shorter : Len(x) = n - 1}, e \in S}

\* the values PASSWORD_VALIDATORS can have: a dict (items in insertion order),
\* None, or a value that is no dict
ValidatorConfigs ==
    {[kind |-> "dict", items |-> q] : q \in SeqsUpTo(ValidatorEntries, MaxValidators)}
      \cup {[kind |-> "None", items |-> <<>>], [kind |-> "list", items |-> <<>>]}

NoOutcome ==
    [op |-> "none", kind |-> "none", error |-> "none", type |-> "none", msg |-> 0,
     loaded |-> <<>>, constructed |-> <<>>]

\* the loop of __get_validators with getattr in place of the hasattr test: an
\* absent class raises AttributeError, which the except clause re-raises
RECURSIVE GetValidatorsFrom_AbsentRaises(_, _, _)
GetValidatorsFrom_AbsentRaises(items, i, validators) ==
    IF i > Len(items) THEN [error |-> "none", validators |-> validators]
    ELSE IF ~items[i].file_exists
         THEN [error |-> "FileNotFoundError", validators |-> <<>>]
         ELSE IF items[i].has_class
              THEN GetValidatorsFrom_AbsentRaises(items, i + 1,
                      Append(validators,
                             [obj |-> [key |-> i, rejects |-> items[i].rejects],
                              config |-> [raise_exception |-> items[i].raise_exception]]))
              ELSE [error |-> "AttributeError", validators |-> <<>>]

\* PasswordValidatorController.__get_validators, the loop from entry i on:
\* a missing file raises FileNotFoundError, an absent class is passed over
RECURSIVE GetValidatorsFrom(_, _, _)
GetValidatorsFrom(items, i, validators) ==
    IF i > Len(items) THEN [error |-> "none", validators |-> validators]
    ELSE IF ~items[i].file_exists
         THEN [error |-> "FileNotFoundError", validators |-> <<>>]
         ELSE IF items[i].has_class
              THEN GetValidatorsFrom(items, i + 1,
                      Append(validators,
                             [obj |-> [key |-> i, rejects |-> items[i].rejects],
                              config |-> [raise_exception |-> items[i].raise_exception]]))
              ELSE GetValidatorsFrom(items, i + 1, validators)

\* __get_validators without the guard of line 72: .items() of a value that is
\* no dict raises
GetValidators_NoGuard(cfg) ==
    IF cfg.kind # "dict"
    THEN [error |-> "AttributeError", validators |-> <<>>]
    ELSE GetValidatorsFrom(cfg.items, 1, <<>>)

\* PasswordValidatorController.__get_validators
GetValidators(cfg) ==
    IF cfg.kind # "dict" \/ cfg.items = <<>>
    THEN [error |-> "none", validators |-> <<>>]
    ELSE GetValidatorsFrom(cfg.items, 1, <<>>)

\* AbstractValidator.__init__ / _run_validate: run _validate at construction;
\* its error is re-raised when raise_exception is set, swallowed otherwise
Construct(obj, kw) ==
    LET failed == kw.password \in obj.rejects
    IN  IF failed /\ kw.raise_exception
        THEN [raised |-> TRUE, msg |-> obj.key]
        ELSE [raised |-> FALSE, msg |-> 0]

\* the list comprehension of validate that goes on after a constructor raised
\* and reports the first error at the end
RECURSIVE ConstructAll_NoShortCircuit(_, _, _, _)
ConstructAll_NoShortCircuit(validators, password, i, constructed) ==
    IF i > Len(validators)
    THEN LET bad == {j \in 1..Len(validators) :
                        Construct(validators[j].obj,
                                  [raise_exception |-> validators[j].config.raise_exception,
                                   password |-> password]).raised}
         IN  IF bad = {} THEN [type |-> "bool", msg |-> 0, constructed |-> constructed]
             ELSE [type |-> "str",
                   msg |-> validators[CHOOSE j \in bad : \A h \in bad : j <= h].obj.key,
                   constructed |-> constructed]
    ELSE ConstructAll_NoShortCircuit(validators, password, i + 1,
                                     Append(constructed, validators[i].obj.key))

\* validate, lines 101-106: construct every validator in list order with
\* {**validator.config, **kwargs}; the first exception ends the comprehension and
\* its text is returned; True when none raised
RECURSIVE ConstructAll(_, _, _, _)
ConstructAll(validators, password, i, constructed) ==
    IF i > Len(validators) THEN [type |-> "bool", msg |-> 0, constructed |-> constructed]
    ELSE LET c == Construct(validators[i].obj,
                            [raise_exception |-> validators[i].config.raise_exception,
                             password |-> password])
             now == Append(constructed, validators[i].obj.key)
         IN  IF c.raised
             THEN [type |-> "str", msg |-> c.msg, constructed |-> now]
             ELSE ConstructAll(validators, password, i + 1, now)

\* validate with the loading inside its try block: a loading error becomes text
ValidateCall_CatchingLoad(cfg, password) ==
    LET g == GetValidators(cfg)
    IN  IF g.error # "none"
        THEN [NoOutcome EXCEPT !.op = "validate", !.kind = "return", !.type = "str",
                               !.msg = -1]
        ELSE LET r == ConstructAll(g.validators, password, 1, <<>>)
             IN  [NoOutcome EXCEPT !.op = "validate", !.kind = "return", !.type = r.type,
                                   !.msg = r.msg, !.loaded = g.validators,
                                   !.constructed = r.constructed]

\* PasswordValidatorController.validate: load (outside the try), then construct
ValidateCall(cfg, password) ==
    LET g == GetValidators(cfg)
    IN  IF g.error # "none"
        THEN [NoOutcome EXCEPT !.op = "validate", !.kind = "raise", !.error = g.error]
        ELSE LET r == ConstructAll(g.validators, password, 1, <<>>)
             IN  [NoOutcome EXCEPT !.op = "validate", !.kind = "return", !.type = r.type,
                                   !.msg = r.msg, !.loaded = g.validators,
                                   !.constructed = r.constructed]

\* a call of __get_validators on its own
LoadValidators ==
    /\ vout.op = "none"
    /\ LET g == GetValidators(vcfg)
       IN  vout' = [NoOutcome EXCEPT !.op = "load",
                                     !.kind = IF g.error = "none" THEN "return" ELSE "raise",
                                     !.error = g.error, !.loaded = g.validators]
    /\ UNCHANGED <<vcfg, vpassword>>
    /\ UNCHANGED notController

\* a call of validate(password=..)
Validate ==
    /\ vout.op # "validate"
    /\ vout' = ValidateCall(vcfg, vpassword)
    /\ UNCHANGED <<vcfg, vpassword>>
    /\ UNCHANGED notController

(* ----------- validators.py, the two validators of password_tools.py ----- *)
\* characters of the values: a lowercase and an uppercase letter
Alphabet == {"a", "B"}
Uppercase == {"B"}
\* the non-empty character strings of at most MaxLen characters
Strings == UNION {[1..n -> Alphabet] : n \in 1..MaxLen}

\* one keyword argument; kwargs is the sequence of them in insertion order
StrItem(key, value) ==
    [key |-> key, kind |-> "str", str |-> value, num |-> 0, flag |-> FALSE]
FloatItem(key, tenths) ==
    [key |-> key, kind |-> "float", str |-> <<>>, num |-> tenths, flag |-> FALSE]
IntItem(key, n) ==
    [key |-> key, kind |-> "int", str |-> <<>>, num |-> n, flag |-> FALSE]
BoolItem(key, b) ==
    [key |-> key, kind |-> "bool", str |-> <<>>, num |-> 0, flag |-> b]

\* kwargs.get(key, default)
KwGet(kw, key, default) ==
    IF \E i \in 1..Len(kw) : kw[i].key = key
    THEN kw[CHOOSE i \in 1..Len(kw) : kw[i].key = key]
    ELSE default

\* kwargs after kwargs.pop(key): the other items, order kept
KwPop(kw, key) == SelectSeq(kw, LAMBDA item : item.key # key)

\* {**validator.config, **kwargs}: the configuration's keys first (line 103)
KwMerge(config, kwargs) == config \o kwargs

\* default of coefficient, in tenths (line 32); default of uppercase (line 48)
DefaultCoefficient == 7
DefaultUppercase == 1

NoError == [type |-> "none", field |-> ""]

\* length of the longest common subsequence of s and t
RECURSIVE LCS(_, _)
LCS(s, t) ==
    IF s = <<>> \/ t = <<>> THEN 0
    ELSE IF Head(s) = Head(t) THEN 1 + LCS(Tail(s), Tail(t))
    ELSE LET a == LCS(Tail(s), t)
             b == LCS(s, Tail(t))
         IN  IF a >= b THEN a ELSE b

\* Levenshtein.ratio(s, t) > coefficient, with ratio = 2 * LCS / (len s + len t)
\* and the coefficient in tenths
RatioExceeds(s, t, coefficient) ==
    2 * LCS(s, t) * 10 > coefficient * (Len(s) + Len(t))

\* LevenshteinPasswordValidator._validate, the loop of lines 34-37 from item i on;
\* Levenshtein.ratio raises TypeError for a value that is no string
RECURSIVE LevenshteinLoop(_, _, _, _)
LevenshteinLoop(password, other_fields, i, coefficient) ==
    IF i > Len(other_fields) THEN NoError
    ELSE IF other_fields[i].kind # "str"
         THEN [type |-> "TypeError", field |-> other_fields[i].key]
         ELSE IF RatioExceeds(password, other_fields[i].str, coefficient)
              THEN [type |-> "ValueError", field |-> other_fields[i].key]
              ELSE LevenshteinLoop(password, other_fields, i + 1, coefficient)

\* LevenshteinPasswordValidator._validate: the error it raises, NoError if none
LevenshteinValidate(kw) ==
    LET password == KwGet(kw, "password", StrItem("password", <<>>)).str
        other_fields == KwPop(kw, "password")
        coefficient ==
            KwGet(other_fields, "coefficient",
                  FloatItem("coefficient", DefaultCoefficient)).num
    IN  LevenshteinLoop(password, other_fields, 1, coefficient)

\* number of uppercase characters of s
RECURSIVE CountUppercase(_)
CountUppercase(s) ==
    IF s = <<>> THEN 0
    ELSE (IF Head(s) \in Uppercase THEN 1 ELSE 0) + CountUppercase(Tail(s))

\* StrengthPasswordValidator._validate: the policy asks for `uppercase` uppercase
\* characters, and for zero digits and special characters by default
StrengthValidate(kw) ==
    LET password == KwGet(kw, "password", StrItem("password", <<>>)).str
        uppercase == KwGet(kw, "uppercase", IntItem("uppercase", DefaultUppercase)).num
    IN  IF CountUppercase(password) < uppercase
        THEN [type |-> "ValueError", field |-> ""]
        ELSE NoError

ValidatorClasses == {"LevenshteinPasswordValidator", "StrengthPasswordValidator"}

\* AbstractValidator._run_validate: raised, or the value it returns
RunValidate(cls, kw, raise_exception) ==
    LET error == IF cls = "LevenshteinPasswordValidator"
                 THEN LevenshteinValidate(kw)
                 ELSE StrengthValidate(kw)
    IN  IF error.type = "none"
        THEN [raised |-> FALSE, error |-> error, returned |-> TRUE]
        ELSE IF raise_exception
             THEN [raised |-> TRUE, error |-> error, returned |-> FALSE]
             ELSE [raised |-> FALSE, error |-> error, returned |-> FALSE]

NoConstruction ==
    [op |-> "none", raised |-> FALSE, error |-> NoError, attributes |-> {}]

\* AbstractValidator.__init__: the instance's attributes as <<name, value>>, set
\* by line 19 only; the value returned by _run_validate is dropped (line 20)
ValidatorInit(cls, kw) ==
    LET given == KwGet(kw, "raise_exception", BoolItem("raise_exception", TRUE))
        raise_exception == IF given.kind = "bool" THEN given.flag ELSE TRUE
        run == RunValidate(cls, kw, raise_exception)
    IN  [op |-> "construct", raised |-> run.raised, error |-> run.error,
         attributes |-> IF run.raised THEN {}
                        ELSE {<<"raise_exception", raise_exception>>}]

\* a validator is constructed from its configuration and the caller's values
ConstructValidator ==
    /\ aout.op = "none"
    /\ aout' = ValidatorInit(ain.cls, KwMerge(ain.config, ain.kwargs))
    /\ UNCHANGED ain
    /\ UNCHANGED notValidator

\* configurations of a validator: zero or more of its parameters
RaiseParts ==
    {<<>>, <<BoolItem("raise_exception", TRUE)>>, <<BoolItem("raise_exception", FALSE)>>,
     <<StrItem("raise_exception", <<"a">>)>>}
ValidatorParams(cls) ==
    IF cls = "LevenshteinPasswordValidator"
    THEN {c \o r : c \in {<<>>, <<FloatItem("coefficient", 5)>>,
                          <<FloatItem("coefficient", DefaultCoefficient)>>},
                   r \in RaiseParts}
    ELSE {c \o r : c \in {<<>>, <<IntItem("uppercase", 2)>>}, r \in RaiseParts}

\* what BaseUser.password_validator hands over: password, username, name
CallerKwargs ==
    {<<StrItem("password", p), StrItem("username", u), StrItem("name", n)>> :
        p \in Strings, u \in Strings, n \in Strings}

NoInput == [cls |-> "none", config |-> <<>>, kwargs |-> <<>>]

AInit ==
    /\ ain = NoInput
    /\ aout = NoConstruction

(* ------- users: models.py BaseUser, manager.py UserManager, main.py ----- *)
Usernames == {"alice", "bob", "carol"}
Names == {"Ann"}
\* salts that CryptContext.hash can draw
Salts == {1, 2}

\* the scheme of HASH_PASSWORD_ALGORITHM, and a scheme the context does not know
ConfiguredScheme == "HASH_PASSWORD_ALGORITHM"
ForeignScheme == "foreign"

NoHash == [scheme |-> "none", salt |-> 0, of |-> ""]
NoUserData == [username |-> "", password |-> NoHash, name |-> ""]
NoUserResponse ==
    [op |-> "none", code |-> 0, username |-> "", user |-> 0, data |-> NoUserData]

\* a password stored as it came, unhashed
Plaintext(password) == [scheme |-> "plain", salt |-> 0, of |-> password]

\* PasswordHashController.hash_password: crypt_context.hash(password)
HashPassword(password, salt) ==
    [scheme |-> ConfiguredScheme, salt |-> salt, of |-> password]

\* PasswordHashController.check_password: crypt_context.verify(password, hash);
\* verify raises UnknownHashError for a hash of no scheme of the context
CheckPassword(password, hashed_password) ==
    IF hashed_password.scheme # ConfiguredScheme
    THEN [error |-> "UnknownHashError", value |-> FALSE]
    ELSE [error |-> "none", value |-> hashed_password.of = password]

\* UserManager.get_user: the row with this username, 0 for None
GetUser(db, username) ==
    IF \E i \in DOMAIN db : db[i].username = username
    THEN CHOOSE i \in DOMAIN db : db[i].username = username
    ELSE 0

\* UserManager.authenticate: the user, 0 for False; check_password is not guarded
UserAuthenticate(db, username, password) ==
    LET user == GetUser(db, username)
    IN  IF user = 0 THEN [error |-> "none", user |-> 0]
        ELSE LET c == CheckPassword(password, db[user].password)
             IN  IF c.error # "none" THEN [error |-> c.error, user |-> 0]
                 ELSE [error |-> "none", user |-> IF c.value THEN user ELSE 0]

\* main.authenticate: 401 when no user comes back; an exception of the
\* dependency is answered 500; 0 when the request goes on to the handler
AuthCode(a) ==
    IF a.error # "none" THEN 500 ELSE IF a.user = 0 THEN 401 ELSE 0

\* BaseUser.password_validator that keeps the password as it came
PasswordValidator_NoHash(cfg, user, salt) ==
    LET validate_result == ValidateCall(cfg, user.password)
    IN  IF validate_result.kind = "raise"
        THEN [error |-> validate_result.error, data |-> NoUserData]
        ELSE IF validate_result.type = "str"
             THEN [error |-> "ValueError", data |-> NoUserData]
             ELSE [error |-> "none",
                   data |-> [user EXCEPT !.password = Plaintext(user.password)]]

\* BaseUser.password_validator: validate, ValueError for a str result, then
\* replace the password by its hash
PasswordValidator(cfg, user, salt) ==
    LET validate_result == ValidateCall(cfg, user.password)
    IN  IF validate_result.kind = "raise"
        THEN [error |-> validate_result.error, data |-> NoUserData]
        ELSE IF validate_result.type = "str"
             THEN [error |-> "ValueError", data |-> NoUserData]
             ELSE [error |-> "none",
                   data |-> [user EXCEPT !.password = HashPassword(user.password, salt)]]

\* a request body that fails validation is answered 422, any other exception 500
ValidationCode(v) == IF v.error = "ValueError" THEN 422 ELSE 500

\* the unique constraint of UserDB.username
UniqueUsernames(db) ==
    \A i, j \in DOMAIN db : db[i].username = db[j].username => i = j

\* key_field of Manager.update / Manager.delete: a column of the model, or a
\* plain value such as current_user.user_id
Column(name) == [kind |-> "column", name |-> name, value |-> 0]
Value(v) == [kind |-> "value", name |-> "", value |-> v]

\* query(model).filter(key_field == key): with a column the rows whose key is
\* key; with a plain value the comparison is a Python bool, the same for all rows
FilterKey(db, key_field, key) ==
    IF key_field.kind = "column"
    THEN {i \in DOMAIN db : i = key}
    ELSE {i \in DOMAIN db : key_field.value = key}

\* requests: the body of POST and PUT users/, the Basic credentials
UserBodies == [username : Usernames, password : Passwords, name : Names]

\* get_user: GET users/
GetUserRequest(username, password) ==
    /\ LET a == UserAuthenticate(users, username, password)
       IN  uresp' = [NoUserResponse EXCEPT
                        !.op = "get_user", !.username = username, !.user = a.user,
                        !.code = IF AuthCode(a) # 0 THEN AuthCode(a) ELSE 200]
    /\ UNCHANGED users
    /\ UNCHANGED notUsers

\* create_user: POST users/, no authentication
CreateUser(user, salt, commit_ok) ==
    /\ Len(users) < MaxUsers
    /\ LET v == PasswordValidator(vcfg, user, salt)
           pending == Append(users, v.data)
           q == ExecuteQuery(users, pending, commit_ok /\ UniqueUsernames(pending))
       IN  IF v.error # "none"
           THEN /\ uresp' = [NoUserResponse EXCEPT !.op = "create_user",
                                                   !.code = ValidationCode(v)]
                /\ UNCHANGED users
           ELSE /\ users' = q.db
                /\ uresp' = IF q.error = "none"
                            THEN [NoUserResponse EXCEPT !.op = "create_user", !.code = 201,
                                                        !.user = Len(pending),
                                                        !.data = v.data]
                            ELSE [NoUserResponse EXCEPT !.op = "create_user", !.code = 500]
    /\ UNCHANGED notUsers

\* update_user: PUT users/; Manager.update gets current_user.user_id, a value,
\* as key_field, and .first() takes a row of the result in no stated order
UpdateUser(username, password, user, salt, commit_ok) ==
    /\ LET a == UserAuthenticate(users, username, password)
           v == PasswordValidator(vcfg, user, salt)
       IN  IF AuthCode(a) # 0
           THEN /\ uresp' = [NoUserResponse EXCEPT !.op = "update_user",
                                !.username = username, !.code = AuthCode(a)]
                /\ UNCHANGED users
           ELSE IF v.error # "none"
           THEN /\ uresp' = [NoUserResponse EXCEPT !.op = "update_user",
                                !.username = username, !.user = a.user,
                                !.code = ValidationCode(v)]
                /\ UNCHANGED users
           ELSE \E instance \in FilterKey(users, Value(a.user), a.user) :
                  LET pending == [users EXCEPT ![instance] = v.data]
                      q == ExecuteQuery(users, pending,
                                        commit_ok /\ UniqueUsernames(pending))
                  IN  /\ users' = q.db
                      /\ uresp' = [NoUserResponse EXCEPT !.op = "update_user",
                                      !.username = username, !.user = a.user,
                                      !.code = IF q.error = "none" THEN 200 ELSE 500,
                                      !.data = IF q.error = "none" THEN v.data
                                               ELSE NoUserData]
    /\ UNCHANGED notUsers

\* PASSWORD_VALIDATORS of a deployment: none, or one validator that rejects
\* the password "password"
UserValidatorConfigs ==
    {[kind |-> "None", items |-> <<>>],
     [kind |-> "dict",
      items |-> <<[file_exists |-> TRUE, has_class |-> TRUE, rejects |-> {"password"},
                   raise_exception |-> TRUE]>>]}

\* rows the table can hold at start-up: none, or one row written earlier, under
\* this HASH_PASSWORD_ALGORITHM or under another one
StoredUsers ==
    {<<>>} \cup
    {<<[username |-> "alice", password |-> h, name |-> "Ann"]>> :
        h \in {HashPassword("Passw0rd!", 1),
               [scheme |-> ForeignScheme, salt |-> 1, of |-> "Passw0rd!"]}}

UInit ==
    /\ users = <<>>
    /\ uresp = NoUserResponse

(* ------------- tasks: models.py TaskInput, main.py tasks/ --------------- *)
Dates == 1..MaxDate
\* datetime.today() of the requests: all of them arrive on the first day
Today == 1
\* task ids a caller can name: every id that can exist, and one that never does
TaskKeys == 1..(MaxTasks + 1)

NoTaskResponse ==
    [op |-> "none", code |-> 0, user |-> 0, key |-> 0, returned |-> {}]

\* request bodies; start_date and finish_date 0 and expired "absent" stand for a
\* field the request leaves out. TaskInput and TaskCreate ask for stop_date only
\* (and name, which no handler looks at), TaskRequiredInput for every field
TaskInputs ==
    [start_date : {0} \cup Dates, stop_date : Dates, finish_date : {0} \cup Dates,
     expired : {"absent", "true", "false"}]
TaskRequiredInputs ==
    [start_date : Dates, stop_date : Dates, finish_date : Dates,
     expired : {"true", "false"}]

\* TaskInput.date_fields_validator on the parsed model, where a start_date left
\* out is datetime.today(); the result is the model's fields that are set
\* (model_fields_set), to which the assignment self.expired = True adds expired
DateFieldsValidator(task) ==
    LET start_date == IF task.start_date = 0 THEN Today ELSE task.start_date
    IN  IF task.stop_date < start_date
        THEN [error |-> "ValueError", data |-> task]
        ELSE IF task.finish_date # 0 /\ task.finish_date > task.stop_date
             THEN [error |-> "none", data |-> [task EXCEPT !.expired = "true"]]
             ELSE [error |-> "none", data |-> task]

\* Manager._field_update: setattr for the fields of data, the others stay
FieldUpdate(obj, data) ==
    [obj EXCEPT
        !.start_date = IF data.start_date = 0 THEN @ ELSE data.start_date,
        !.stop_date = data.stop_date,
        !.finish_date = IF data.finish_date = 0 THEN @ ELSE data.finish_date,
        !.expired = IF data.expired = "absent" THEN @ ELSE data.expired = "true"]

\* TaskDB(**data): the column defaults for the fields data leaves out
NewTask(data, user_id) ==
    FieldUpdate([user_id |-> user_id, start_date |-> Today, stop_date |-> data.stop_date,
                 finish_date |-> 0, expired |-> FALSE], data)

\* Manager.filter on TaskDB with the one predicate user_id == ..
FilterUser(db, user_id) == {t \in DOMAIN db : db[t].user_id = user_id}

\* Manager.delete: first row with key_field == key, False if none; delete and
\* commit, after which session.refresh of the deleted instance raises
\* InvalidRequestError, a SQLAlchemyError, with the row already gone
Delete(db, key, key_field, commit_ok) ==
    LET found == FilterKey(db, key_field, key)
    IN  IF found = {} THEN [db |-> db, error |-> "none", deleted |-> FALSE]
        ELSE LET instance == CHOOSE t \in found : TRUE
                 q == ExecuteQuery(db, [t \in DOMAIN db \ {instance} |-> db[t]],
                                   commit_ok)
             IN  [db |-> q.db,
                  error |-> IF q.error = "none" THEN "InvalidRequestError" ELSE q.error,
                  deleted |-> q.error = "none"]

\* get_task: GET tasks/{task_id}
GetTask(task_id, user) ==
    /\ LET g == Get(tasks, task_id, user)
       IN  tresp' = IF g.error # "none"
                    THEN [NoTaskResponse EXCEPT !.op = "get_task", !.code = 500,
                                                !.user = user, !.key = task_id]
                    ELSE [NoTaskResponse EXCEPT !.op = "get_task", !.code = 200,
                                                !.user = user, !.key = task_id,
                                                !.returned = {g.report_id}]
    /\ UNCHANGED tasks
    /\ UNCHANGED notTasks

\* get_tasks: GET tasks/
GetTasks(user) ==
    /\ LET found == FilterUser(tasks, user)
       IN  tresp' = [NoTaskResponse EXCEPT !.op = "get_tasks", !.user = user,
                        !.code = IF found = {} THEN 404 ELSE 200,
                        !.returned = found]
    /\ UNCHANGED tasks
    /\ UNCHANGED notTasks

\* delete_tasks: DELETE tasks/{task_id}; the only predicate is the task id
DeleteTasks(task_id, user, commit_ok) ==
    /\ LET d == Delete(tasks, task_id, Column("task_id"), commit_ok)
       IN  /\ tasks' = d.db
           /\ tresp' = [NoTaskResponse EXCEPT !.op = "delete_tasks", !.user = user,
                           !.key = task_id,
                           !.code = IF d.error = "none" THEN 204 ELSE 500]
    /\ UNCHANGED notTasks

\* the body of full_update_task and update_task after the request is validated
SaveTask(op, task_id, v, user, commit_ok) ==
    LET g == Get(tasks, task_id, user)
        q == ExecuteQuery(tasks,
                          [tasks EXCEPT ![task_id] = FieldUpdate(@, v.data)], commit_ok)
    IN  IF v.error # "none"
        THEN /\ tresp' = [NoTaskResponse EXCEPT !.op = op, !.code = 422,
                                                !.user = user, !.key = task_id]
             /\ UNCHANGED tasks
        ELSE IF g.error # "none"
        THEN /\ tresp' = [NoTaskResponse EXCEPT !.op = op, !.code = 500,
                                                !.user = user, !.key = task_id]
             /\ UNCHANGED tasks
        ELSE /\ tasks' = q.db
             /\ tresp' = [NoTaskResponse EXCEPT !.op = op, !.user = user, !.key = task_id,
                             !.code = IF q.error = "none" THEN 200 ELSE 500]

\* full_update_task: PUT tasks/{task_id} with a TaskRequiredInput
FullUpdateTask(task_id, task, user, commit_ok) ==
    /\ SaveTask("full_update_task", task_id, DateFieldsValidator(task), user, commit_ok)
    /\ UNCHANGED notTasks

\* update_task: PATCH tasks/{task_id} with a TaskInput
UpdateTask(task_id, task, user, commit_ok) ==
    /\ SaveTask("update_task", task_id, DateFieldsValidator(task), user, commit_ok)
    /\ UNCHANGED notTasks

\* create_task: POST tasks/ with a TaskCreate that leaves task_id to uuid4
CreateTask(task, user, commit_ok) ==
    /\ Cardinality(DOMAIN tasks) < MaxTasks
    /\ LET v == DateFieldsValidator(task)
           id == uuid4(DOMAIN tasks)
           q == ExecuteQuery(tasks, (id :> NewTask(v.data, user)) @@ tasks, commit_ok)
       IN  IF v.error # "none"
           THEN /\ tresp' = [NoTaskResponse EXCEPT !.op = "create_task", !.code = 422,
                                                   !.user = user]
                /\ UNCHANGED tasks
           ELSE /\ tasks' = q.db
                /\ tresp' = IF q.error = "none"
                            THEN [NoTaskResponse EXCEPT !.op = "create_task", !.code = 201,
                                                        !.user = user, !.key = id]
                            ELSE [NoTaskResponse EXCEPT !.op = "create_task", !.code = 500,
                                                        !.user = user]
    /\ UNCHANGED notTasks

TInit ==
    /\ tasks = <<>>
    /\ tresp = NoTaskResponse

VInit ==
    /\ vcfg = [kind |-> "dict", items |-> <<>>]
    /\ vpassword = "password"
    /\ vout = NoOutcome

\* no report, no background unit, nothing answered or logged yet
RInit ==
    /\ reports = <<>>
    /\ units = <<>>
    /\ slept = NoSleep
    /\ response = NoResponse
    /\ logline = NoLog

Init ==
    /\ RInit
    /\ VInit
    /\ AInit
    /\ UInit
    /\ TInit

Next ==
    \/ \E user \in Users, commit_ok \in BOOLEAN : CreateReport(user, commit_ok)
    \/ \E report_id \in Keys, user \in Users : CheckReport(report_id, user)
    \/ \E u \in 1..MaxReports : SimBegin(u)
    \/ \E u \in 1..MaxReports, commit_ok \in BOOLEAN : SimRunning(u, commit_ok)
    \/ \E u \in 1..MaxReports, commit_ok \in BOOLEAN : SimFinal(u, commit_ok)

Spec == Init /\ [][Next]_vars

\* the thread pool runs every scheduled background unit
FairSpec == Spec /\ \A u \in 1..MaxReports : WF_vars(UnitStep(u))

InitV ==
    /\ RInit
    /\ vcfg \in ValidatorConfigs
    /\ vpassword \in Passwords
    /\ vout = NoOutcome
    /\ AInit
    /\ UInit
    /\ TInit

NextV ==
    \/ LoadValidators
    \/ Validate

SpecV == InitV /\ [][NextV]_vars

InitA ==
    /\ RInit
    /\ VInit
    /\ \E cls \in ValidatorClasses :
         \E config \in ValidatorParams(cls), kwargs \in CallerKwargs :
             ain = [cls |-> cls, config |-> config, kwargs |-> kwargs]
    /\ aout = NoConstruction
    /\ UInit
    /\ TInit

NextA == ConstructValidator

SpecA == InitA /\ [][NextA]_vars

InitU ==
    /\ RInit
    /\ vcfg \in UserValidatorConfigs
    /\ vpassword = "password"
    /\ vout = NoOutcome
    /\ AInit
    /\ users \in StoredUsers
    /\ uresp = NoUserResponse
    /\ TInit

NextU ==
    \/ \E username \in Usernames, password \in Passwords :
          GetUserRequest(username, password)
    \/ \E user \in UserBodies, salt \in Salts, commit_ok \in BOOLEAN :
          CreateUser(user, salt, commit_ok)
    \/ \E username \in Usernames, password \in Passwords, user \in UserBodies,
          salt \in Salts, commit_ok \in BOOLEAN :
          UpdateUser(username, password, user, salt, commit_ok)

SpecU == InitU /\ [][NextU]_vars

InitT ==
    /\ RInit
    /\ VInit
    /\ AInit
    /\ UInit
    /\ TInit

NextT ==
    \/ \E task_id \in TaskKeys, user \in Users : GetTask(task_id, user)
    \/ \E user \in Users : GetTasks(user)
    \/ \E task_id \in TaskKeys, user \in Users, commit_ok \in BOOLEAN :
          DeleteTasks(task_id, user, commit_ok)
    \/ \E task_id \in TaskKeys, task \in TaskRequiredInputs, user \in Users,
          commit_ok \in BOOLEAN : FullUpdateTask(task_id, task, user, commit_ok)
    \/ \E task_id \in TaskKeys, task \in TaskInputs, user \in Users,
          commit_ok \in BOOLEAN : UpdateTask(task_id, task, user, commit_ok)
    \/ \E task \in TaskInputs, user \in Users, commit_ok \in BOOLEAN :
          CreateTask(task, user, commit_ok)

SpecT == InitT /\ [][NextT]_vars

(* ======================= claims on Spec / FairSpec ====================== *)
Sleeping(u) == units[u].pc \in {"sleep1", "sleep2"}
RecordOf(u) == units[u].record_id

C6_ErrorLeavesLastPhase ==
    /\ [][ \A u \in DOMAIN units :
             units'[u].error # units[u].error =>
                 /\ reports' = reports
                 /\ units'[u].pc = "done"
                 /\ logline' = [src |-> "simulation_long_process", error |-> units'[u].error]
         ]_vars
    /\ [][ \A u \in DOMAIN units :
             units[u].pc = "done" => reports'[RecordOf(u)] = reports[RecordOf(u)]
         ]_vars

C6_Witness ==
    \E u \in DOMAIN units :
        /\ units[u].pc = "done" /\ units[u].error = "SQLAlchemyError"
        /\ reports[RecordOf(u)].status = RUNNING

\* C7: a status lookup for a key with no entry visible to the caller is answered
\* as a normal result, not with an error response.
C7_MissingKeyIsNoError ==
    (response.op = "check" /\ Filter(reports, response.key, response.user) = {}) =>
        response.code # 500

\* C8: a status lookup leaves the whole status store and every background unit
\* unchanged, and it can be made in every state, whatever the units are doing.
C8_LookupReadOnly ==
    /\ [][ response'.op = "check" => (reports' = reports /\ units' = units) ]_vars
    /\ [](\A report_id \in Keys, user \in Users : ENABLED CheckReport(report_id, user))

C8_Witness ==
    /\ response.op = "check"
    /\ \E u \in DOMAIN units : Sleeping(u) /\ RecordOf(u) = response.key

(* ============================ claims on SpecV =========================== *)
Items == vcfg.items
\* the entries of the configuration that resolve to a class
Resolvable == {i \in 1..Len(Items) : Items[i].has_class}
\* the entries whose constructor raises on the password
Raising == {i \in Resolvable : vpassword \in Items[i].rejects /\ Items[i].raise_exception}
AllFilesExist == \A i \in 1..Len(Items) : Items[i].file_exists
StrictlyIncreasing(q) == \A i, j \in 1..Len(q) : i < j => q[i] < q[j]
Elements(q) == {q[i] : i \in 1..Len(q)}

\* C9: validate is fail-fast: validators are constructed in configuration order,
\* the result is the message of the first validator that raises, no validator
\* after that one is constructed, and the result is True when none raises.
C9_FailFast ==
    (vout.op = "validate" /\ vout.kind = "return") =>
        /\ StrictlyIncreasing(vout.constructed)
        /\ IF Raising = {}
           THEN /\ vout.type = "bool"
                /\ Elements(vout.constructed) = Resolvable
           ELSE LET first == CHOOSE i \in Raising : \A j \in Raising : i <= j
                IN  /\ vout.type = "str" /\ vout.msg = first
                    /\ Elements(vout.constructed) = {i \in Resolvable : i <= first}

C9_Witness ==
    /\ vout.op = "validate" /\ vout.type = "str" /\ vout.msg = 1
    /\ Len(Items) = 2
    /\ Raising = {1, 2}
    /\ vout.constructed = <<1>>

\* C10: when an entry of the configuration names a module file that does not
\* exist, loading raises the not-found error and it propagates out of
\* __get_validators and out of validate: nothing is returned, the entry is not
\* skipped and no validator is constructed.
C10_MissingFilePropagates ==
    (vout.op \in {"load", "validate"} /\ vcfg.kind = "dict" /\ ~AllFilesExist) =>
        /\ vout.kind = "raise"
        /\ vout.error = "FileNotFoundError"
        /\ vout.type = "none"
        /\ vout.loaded = <<>>
        /\ vout.constructed = <<>>

C10_Witness ==
    /\ vout.op = "validate" /\ vout.kind = "raise"
    /\ Len(Items) = 2
    /\ Raising = {1}
    /\ Items[1].file_exists /\ ~Items[2].file_exists

C12_NoConfigurationPasses ==
    (vcfg.kind # "dict" \/ vcfg.items = <<>>) =>
        /\ vout.op = "load" =>
              vout.kind = "return" /\ vout.error = "none" /\ vout.loaded = <<>>
        /\ vout.op = "validate" =>
              /\ vout.kind = "return" /\ vout.type = "bool"
              /\ vout.loaded = <<>> /\ vout.constructed = <<>>

C12_Witness ==
    /\ vcfg.kind = "list"
    /\ vout.op = "validate" /\ vout.type = "bool"
    /\ vpassword = "password"

\* position of a status in the order CREATED, RUNNING, then COMPLETED or FAILED
StatusRank(status) ==
    CASE status = CREATED -> 0
      [] status = RUNNING -> 1
      [] status \in {COMPLETED, FAILED} -> 2

RaiseOnFailure ==
    LET given == KwGet(ain.config, "raise_exception", BoolItem("raise_exception", TRUE))
    IN  IF given.kind = "bool" THEN given.flag ELSE TRUE
CheckFailed == aout.error.type # "none"

\* C13: a construction runs the check; a failed check with raise_exception true
\* fails the construction with the check's error; with raise_exception false the
\* construction completes and the instance has a readable success flag, false
\* when the check failed and true when it passed.
C13_SuccessFlagReadable ==
    aout.op = "construct" =>
        /\ aout.raised <=> (CheckFailed /\ RaiseOnFailure)
        /\ ~aout.raised =>
              \E attribute \in aout.attributes :
                  attribute[1] # "raise_exception" /\ attribute[2] = ~CheckFailed

\* the fields the caller supplied for comparison, in insertion order
AuxiliaryFields == KwPop(ain.kwargs, "password")
ConfiguredCoefficient ==
    KwGet(ain.config, "coefficient", FloatItem("coefficient", DefaultCoefficient)).num
TooSimilar ==
    {i \in 1..Len(AuxiliaryFields) :
        RatioExceeds(ain.kwargs[1].str, AuxiliaryFields[i].str, ConfiguredCoefficient)}

\* C14: the Levenshtein validator fails exactly when some field supplied by the
\* caller is more similar to the password than the coefficient, and the error
\* names the first such field; the validator's own parameters are no fields.
C14_FailsIffSimilarField ==
    (aout.op = "construct" /\ ain.cls = "LevenshteinPasswordValidator") =>
        /\ CheckFailed <=> TooSimilar # {}
        /\ CheckFailed =>
              /\ aout.error.type = "ValueError"
              /\ \E i \in TooSimilar :
                    /\ aout.error.field = AuxiliaryFields[i].key
                    /\ \A j \in TooSimilar : i <= j

(* =========================== claims on SpecU ============================ *)
\* the hashes PasswordHashController.hash_password can produce
ControllerHashes == {HashPassword(p, s) : p \in Passwords, s \in Salts}

\* C15: every password value that a user creation or a user update writes to
\* the table "users" is a hash produced by PasswordHashController, the one the
\* request's validation put in place of the plaintext; no step stores a plaintext.
C15_OnlyHashesWritten ==
    [][ \A i \in DOMAIN users' :
          (i \notin DOMAIN users \/ users'[i].password # users[i].password) =>
             /\ uresp'.op \in {"create_user", "update_user"}
             /\ users'[i].password \in ControllerHashes
             /\ users'[i].password = uresp'.data.password
      ]_vars

C15_Witness ==
    /\ uresp.op = "update_user" /\ uresp.code = 200
    /\ Len(users) = 2
    /\ \E i \in DOMAIN users : users[i].password = uresp.data.password
    /\ \A i \in DOMAIN users : users[i].password \in ControllerHashes

\* C16: a request whose credentials name a user with a stored hash of a foreign
\* or malformed format ends as a failed login (401), not as an error.
C16_ForeignHashIsFailedLogin ==
    LET user == GetUser(users, uresp.username)
    IN  (/\ uresp.op \in {"get_user", "update_user"}
         /\ user # 0
         /\ users[user].password \notin ControllerHashes)
        => uresp.code = 401

\* C18: a successful update_user authenticated as u puts the new field values in
\* u's row and leaves the row of every other user unchanged.
C18_UpdatesOnlyCaller ==
    [][ (uresp'.op = "update_user" /\ uresp'.code = 200) =>
          /\ users'[uresp'.user] = uresp'.data
          /\ \A v \in DOMAIN users : v # uresp'.user => users'[v] = users[v]
      ]_vars

(* =========================== claims on SpecT ============================ *)
\* C17: whatever task request a user makes (get, list, create, put, patch,
\* delete), no task owned by another user is returned, modified or deleted.
C17_TasksIsolatedPerUser ==
    [][ tresp'.op # "none" =>
          \A t \in DOMAIN tasks :
              tasks[t].user_id # tresp'.user =>
                 /\ t \in DOMAIN tasks'
                 /\ tasks'[t] = tasks[t]
                 /\ t \notin tresp'.returned
      ]_vars

\* C20: every stored task has stop_date not earlier than start_date, and is
\* expired whenever its finish_date is later than its stop_date.
C20_StoredDatesConsistent ==
    \A t \in DOMAIN tasks :
        /\ tasks[t].stop_date >= tasks[t].start_date
        /\ (tasks[t].finish_date # 0 /\ tasks[t].finish_date > tasks[t].stop_date)
              => tasks[t].expired

\* C21: a get, full-update or partial-update request (with a body that passes
\* validation) for a task id that is not among the caller's tasks is answered
\* 404, not 500, and leaves the table as it was.
C21_MissingTaskIsNotFound ==
    [][ (/\ tresp'.op \in {"get_task", "full_update_task", "update_task"}
         /\ tresp'.code # 422
         /\ Filter(tasks, tresp'.key, tresp'.user) = {})
        => (tresp'.code = 404 /\ tasks' = tasks)
      ]_vars
====
